---- MODULE Spec2Model ----
(***************************************************************************)
(* A model of src/model.py: the Recurrent State-Space Model               *)
(* (RecurrentStateSpaceModel: prior, posterior, forward) and ActionModel. *)
(*                                                                         *)
(* Tensors are sequences of rows, a row is a sequence of numbers.  Numbers *)
(* are finite-precision reals: an integer n stands for n / One, every      *)
(* product is rounded to the nearest representable number, and the         *)
(* transcendental functions are the correctly rounded ones (tables), which *)
(* saturate as floating point does.  The learned parameters are one frozen *)
(* snapshot, picked at construction.                                       *)
(***************************************************************************)
EXTENDS Integers, Sequences, FiniteSets, TLC

VARIABLES
    params,     \* the parameter snapshot of every nn.Linear / nn.GRUCell
    cfg,        \* configuration fixed by __init__: _min_stddev, act
    args,       \* the caller's tensors: state, action, rnn_hidden, embedded_obs
    ret,        \* the last call: its name, its inputs and what it returned
    prev,       \* the call before it
    rng,        \* state of torch's random generator
    calls,      \* number of calls made so far
    acted,      \* the last call of ActionModel.forward
    roll        \* a sequence-level rollout driven by the caller

vars == <<params, cfg, args, ret, prev, rng, calls, acted, roll>>

---------------------------------------------------------------------------
(* Bounds of the model *)

MaxSeed == 2
MaxBatch == 2
MaxPattern == 1
MaxCalls == 2
RngPeriod == 2
MaxWidth == 3
Horizon == 15
TwinLen == 3

---------------------------------------------------------------------------
(* Widths given to the constructors (scaled-down instances) *)

StateDim == 2
ActionDim == 1
RnnHiddenDim == 2
HiddenDim == 3
EmbedDim == 1

---------------------------------------------------------------------------
(* Finite-precision arithmetic *)

\* The representation of 1.0
One == 10

\* n / d rounded to the nearest integer, ties away from zero
RoundDiv(n, d) ==
    IF n >= 0 THEN (2 * n + d) \div (2 * d)
              ELSE -((2 * (-n) + d) \div (2 * d))

\* a * b, rounded
Mul(a, b) == RoundDiv(a * b, One)

\* exp(x) - 1 for x in [-3.0, 3.0] (x > 0 unused by Elu)
EluTable ==
    <<-10, -9, -9, -9, -9, -9, -9, -9, -9, -9, -9, -9, -8, -8, -8, -8, -8, -7,
      -7, -7, -6, -6, -6, -5, -5, -4, -3, -3, -2, -1, 0, 1, 2, 3, 4, 5, 6, 7,
      8, 9, 10, 11, 12, 13, 14, 15, 16, 17, 18, 19, 20, 21, 22, 23, 24, 25,
      26, 27, 28, 29, 30>>

\* 1 / (1 + exp(-x)) for x in [-3.0, 3.0]
SigmoidTable ==
    <<0, 1, 1, 1, 1, 1, 1, 1, 1, 1, 1, 1, 1, 2, 2, 2, 2, 2, 2, 2, 3, 3, 3, 3,
      4, 4, 4, 4, 5, 5, 5, 5, 5, 6, 6, 6, 6, 7, 7, 7, 7, 8, 8, 8, 8, 8, 8, 8,
      9, 9, 9, 9, 9, 9, 9, 9, 9, 9, 9, 9, 10>>

\* tanh(x) for x in [-3.0, 3.0]
TanhTable ==
    <<-10, -10, -10, -10, -10, -10, -10, -10, -10, -10, -10, -10, -9, -9, -9,
      -9, -9, -9, -8, -8, -8, -7, -7, -6, -5, -5, -4, -3, -2, -1, 0, 1, 2, 3,
      4, 5, 5, 6, 7, 7, 8, 8, 8, 9, 9, 9, 9, 9, 9, 10, 10, 10, 10, 10, 10, 10,
      10, 10, 10, 10, 10>>

\* log(1 + exp(x)) for x in [-3.0, 3.0]
SoftplusTable ==
    <<0, 1, 1, 1, 1, 1, 1, 1, 1, 1, 1, 1, 2, 2, 2, 2, 2, 2, 3, 3, 3, 3, 4, 4,
      4, 5, 5, 6, 6, 6, 7, 7, 8, 9, 9, 10, 10, 11, 12, 12, 13, 14, 15, 15, 16,
      17, 18, 19, 20, 20, 21, 22, 23, 24, 25, 26, 27, 28, 29, 30, 30>>

\* The largest argument of a table; beyond it the function has saturated
TableMax(t) == (Len(t) - 1) \div 2

Lookup(t, x) == t[x + TableMax(t) + 1]

\* F.elu: x for x > 0, exp(x) - 1 otherwise (-1.0 once exp(x) rounds to 0)
Elu(x) ==
    IF x > 0 THEN x
    ELSE IF x < -TableMax(EluTable) THEN -One
    ELSE Lookup(EluTable, x)

\* F.relu
Relu(x) == IF x > 0 THEN x ELSE 0

\* torch.sigmoid
Sigmoid(x) ==
    IF x > TableMax(SigmoidTable) THEN One
    ELSE IF x < -TableMax(SigmoidTable) THEN 0
    ELSE Lookup(SigmoidTable, x)

\* torch.tanh
Tanh(x) ==
    IF x > TableMax(TanhTable) THEN One
    ELSE IF x < -TableMax(TanhTable) THEN -One
    ELSE Lookup(TanhTable, x)

\* F.softplus: x above the threshold, log(1 + exp(x)) below it, which is 0
\* once exp(x) has underflowed
Softplus(x) ==
    IF x > TableMax(SoftplusTable) THEN x
    ELSE IF x < -TableMax(SoftplusTable) THEN 0
    ELSE Lookup(SoftplusTable, x)

---------------------------------------------------------------------------
(* Tensors *)

Batch(x) == Len(x)
Width(x) == Len(x[1])

\* torch.cat([x, y], dim=1)
Cat(x, y) == [i \in 1..Batch(x) |-> x[i] \o y[i]]

\* torch.cat raises unless the tensors agree on every other dimension
CatRaises(x, y) == Batch(x) # Batch(y)

Zeros(b, w) == [i \in 1..b |-> [j \in 1..w |-> 0]]

\* The tensors callers pass: pattern 0 is all zero, the others have rows
\* that differ
Pattern(b, w, k, salt) ==
    [i \in 1..b |-> [j \in 1..w |->
        IF k = 0 THEN 0
        ELSE (((k * 7 + i * 3 + j + salt * 4 + 2) % 5) - 2) * 5]]

---------------------------------------------------------------------------
(* Parameters: layer ids and the snapshot's weights *)

\* One number per layer, in the order __init__ creates them
L_fc_state_action == 1
L_fc_rnn_hidden == 2
L_fc_state_mean_prior == 3
L_fc_state_stddev_prior == 4
L_fc_rnn_hidden_embedded_obs == 5
L_fc_state_mean_posterior == 6
L_fc_state_stddev_posterior == 7
L_rnn_ih == 8
L_rnn_hh == 9
L_fc1 == 10
L_fc2 == 11
L_fc3 == 12
L_fc4 == 13
L_fc_mean == 14
L_fc_stddev == 15

\* Entry (o, k) of a layer's weight matrix in snapshot p; column 0 is the
\* bias.  Snapshot 0 is all zero, the others are spread over [-2.0, 2.0].
ParamOf(p, layer, o, k) ==
    IF p = 0 THEN 0
    ELSE ((p * 37 + layer * 11 + o * 17 + k * 29
           + p * layer * o * 3) % 41) - 20

Weight(layer, o, k) == ParamOf(params, layer, o, k)
Bias(layer, o) == ParamOf(params, layer, o, 0)

RECURSIVE Dot(_, _, _, _)
\* sum over k <= n of row[k] * weight[o][k]
Dot(row, layer, o, n) ==
    IF n = 0 THEN 0
    ELSE Dot(row, layer, o, n - 1) + Mul(row[n], Weight(layer, o, n))

\* nn.Linear(inF, outF) applied to x: x W^T + b
Linear(layer, inF, outF, x) ==
    [i \in 1..Batch(x) |-> [o \in 1..outF |->
        Dot(x[i], layer, o, inF) + Bias(layer, o)]]

\* F.linear raises unless the last dimension is in_features
LinearRaises(inF, x) == Width(x) # inF

\* self.act
Act(x) ==
    [i \in 1..Batch(x) |-> [j \in 1..Width(x) |->
        IF cfg.act = "elu" THEN Elu(x[i][j]) ELSE Relu(x[i][j])]]

---------------------------------------------------------------------------
(* nn.GRUCell(HiddenDim, RnnHiddenDim) *)

\* The cell raises unless the input has input_size features and the hidden
\* state has the input's batch size and hidden_size features
GRUCellRaises(x, h) ==
    \/ Width(x) # HiddenDim
    \/ Batch(h) # Batch(x)
    \/ Width(h) # RnnHiddenDim

\* The first row's hidden state used for every row
GRUCellFirstRow(x, h) ==
    LET gi == Linear(L_rnn_ih, HiddenDim, 3 * RnnHiddenDim, x)
        gh == Linear(L_rnn_hh, RnnHiddenDim, 3 * RnnHiddenDim, h)
        r(i, j) == Sigmoid(gi[i][j] + gh[1][j])
        z(i, j) == Sigmoid(gi[i][RnnHiddenDim + j] + gh[1][RnnHiddenDim + j])
        n(i, j) == Tanh(gi[i][2 * RnnHiddenDim + j]
                        + Mul(r(i, j), gh[1][2 * RnnHiddenDim + j]))
    IN  [i \in 1..Batch(x) |-> [j \in 1..RnnHiddenDim |->
            Mul(One - z(i, j), n(i, j)) + Mul(z(i, j), h[1][j])]]

\* r = sigmoid(W_ir x + b_ir + W_hr h + b_hr)
\* z = sigmoid(W_iz x + b_iz + W_hz h + b_hz)
\* n = tanh(W_in x + b_in + r * (W_hn h + b_hn))
\* h' = (1 - z) * n + z * h
GRUCell(x, h) ==
    LET gi == Linear(L_rnn_ih, HiddenDim, 3 * RnnHiddenDim, x)
        gh == Linear(L_rnn_hh, RnnHiddenDim, 3 * RnnHiddenDim, h)
        r(i, j) == Sigmoid(gi[i][j] + gh[i][j])
        z(i, j) == Sigmoid(gi[i][RnnHiddenDim + j] + gh[i][RnnHiddenDim + j])
        n(i, j) == Tanh(gi[i][2 * RnnHiddenDim + j]
                        + Mul(r(i, j), gh[i][2 * RnnHiddenDim + j]))
    IN  [i \in 1..Batch(x) |-> [j \in 1..RnnHiddenDim |->
            Mul(One - z(i, j), n(i, j)) + Mul(z(i, j), h[i][j])]]

---------------------------------------------------------------------------
(* RecurrentStateSpaceModel *)

\* torch.distributions.Normal(mean, stddev)
Normal(mean, stddev) == [mean |-> mean, stddev |-> stddev]

\* Normal(mean, stddev).rsample(): mean + stddev * eps, eps drawn from the
\* generator, whose state g decides the draw
Eps(g, i, j) == (((g * 5 + i * 2 + j) % 3) - 1) * One

RSample(dist, g) ==
    [i \in 1..Batch(dist.mean) |-> [j \in 1..Width(dist.mean) |->
        dist.mean[i][j] + Mul(dist.stddev[i][j], Eps(g, i, j))]]

\* The generator after one draw
NextRng(g) == (g + 1) % RngPeriod

\* What a call that raised leaves its caller with: nothing is returned
Raised == [raised |-> TRUE]

\* The floor left out
StddevWithoutFloor(raw) ==
    [i \in 1..Batch(raw) |-> [j \in 1..Width(raw) |-> Softplus(raw[i][j])]]

\* F.softplus(raw) + self._min_stddev
Stddev(raw) ==
    [i \in 1..Batch(raw) |-> [j \in 1..Width(raw) |->
        Softplus(raw[i][j]) + cfg.min_stddev]]

\* prior raises where torch.cat, fc_state_action or the cell raises; the
\* later layers are fed widths the model itself produced
PriorRaises(state, action, rnn_hidden) ==
    \/ CatRaises(state, action)
    \/ LinearRaises(StateDim + ActionDim, Cat(state, action))
    \/ GRUCellRaises(Zeros(Batch(state), HiddenDim), rnn_hidden)

\* fc_rnn_hidden applied to the rnn_hidden that was passed in
PriorValueOnStaleHidden(state, action, rnn_hidden) ==
    LET hidden1 == Act(Linear(L_fc_state_action, StateDim + ActionDim,
                              HiddenDim, Cat(state, action)))
        rnn_hidden1 == GRUCell(hidden1, rnn_hidden)
        hidden2 == Act(Linear(L_fc_rnn_hidden, RnnHiddenDim, HiddenDim,
                              rnn_hidden))
        mean == Linear(L_fc_state_mean_prior, HiddenDim, StateDim, hidden2)
        stddev == Stddev(Linear(L_fc_state_stddev_prior, HiddenDim, StateDim,
                                hidden2))
    IN  [raised |-> FALSE, dist |-> Normal(mean, stddev),
         rnn_hidden |-> rnn_hidden1]

\* hidden returned in place of rnn_hidden
PriorValueReturnsHidden(state, action, rnn_hidden) ==
    LET hidden1 == Act(Linear(L_fc_state_action, StateDim + ActionDim,
                              HiddenDim, Cat(state, action)))
        rnn_hidden1 == GRUCell(hidden1, rnn_hidden)
        hidden2 == Act(Linear(L_fc_rnn_hidden, RnnHiddenDim, HiddenDim,
                              rnn_hidden1))
        mean == Linear(L_fc_state_mean_prior, HiddenDim, StateDim, hidden2)
        stddev == Stddev(Linear(L_fc_state_stddev_prior, HiddenDim, StateDim,
                                hidden2))
    IN  [raised |-> FALSE, dist |-> Normal(mean, stddev),
         rnn_hidden |-> hidden2]

\* The body of prior, lines 83 to 89
PriorValue(state, action, rnn_hidden) ==
    LET hidden1 == Act(Linear(L_fc_state_action, StateDim + ActionDim,
                              HiddenDim, Cat(state, action)))
        rnn_hidden1 == GRUCell(hidden1, rnn_hidden)
        hidden2 == Act(Linear(L_fc_rnn_hidden, RnnHiddenDim, HiddenDim,
                              rnn_hidden1))
        mean == Linear(L_fc_state_mean_prior, HiddenDim, StateDim, hidden2)
        stddev == Stddev(Linear(L_fc_state_stddev_prior, HiddenDim, StateDim,
                                hidden2))
    IN  [raised |-> FALSE, dist |-> Normal(mean, stddev),
         rnn_hidden |-> rnn_hidden1]

\* A sample returned in place of the mean
PriorSampled(state, action, rnn_hidden) ==
    IF PriorRaises(state, action, rnn_hidden) THEN Raised
    ELSE LET p == PriorValue(state, action, rnn_hidden)
         IN  [p EXCEPT !.dist.mean = RSample(p.dist, rng)]

Prior(state, action, rnn_hidden) ==
    IF PriorRaises(state, action, rnn_hidden) THEN Raised
    ELSE PriorValue(state, action, rnn_hidden)

PosteriorRaises(rnn_hidden, embedded_obs) ==
    \/ CatRaises(rnn_hidden, embedded_obs)
    \/ LinearRaises(RnnHiddenDim + EmbedDim, Cat(rnn_hidden, embedded_obs))

Posterior(rnn_hidden, embedded_obs) ==
    IF PosteriorRaises(rnn_hidden, embedded_obs) THEN Raised
    ELSE
    LET hidden == Act(Linear(L_fc_rnn_hidden_embedded_obs,
                             RnnHiddenDim + EmbedDim, HiddenDim,
                             Cat(rnn_hidden, embedded_obs)))
        mean == Linear(L_fc_state_mean_posterior, HiddenDim, StateDim, hidden)
        stddev == Stddev(Linear(L_fc_state_stddev_posterior, HiddenDim,
                                StateDim, hidden))
    IN  [raised |-> FALSE, dist |-> Normal(mean, stddev)]

\* The posterior conditioned on the rnn_hidden that was passed in
ForwardOnStaleHidden(state, action, rnn_hidden, embedded_next_obs) ==
    LET p == Prior(state, action, rnn_hidden)
    IN  IF p.raised THEN Raised
        ELSE LET q == Posterior(rnn_hidden, embedded_next_obs)
             IN  IF q.raised THEN Raised
                 ELSE [raised |-> FALSE, prior |-> p.dist,
                       posterior |-> q.dist, rnn_hidden |-> p.rnn_hidden]

\* The rnn_hidden that was passed in returned as the new one
ForwardKeepsHidden(state, action, rnn_hidden, embedded_next_obs) ==
    LET p == Prior(state, action, rnn_hidden)
    IN  IF p.raised THEN Raised
        ELSE LET q == Posterior(p.rnn_hidden, embedded_next_obs)
             IN  IF q.raised THEN Raised
                 ELSE [raised |-> FALSE, prior |-> p.dist,
                       posterior |-> q.dist, rnn_hidden |-> rnn_hidden]

\* forward: prior, then posterior on the rnn_hidden that prior returned
Forward(state, action, rnn_hidden, embedded_next_obs) ==
    LET p == Prior(state, action, rnn_hidden)
    IN  IF p.raised THEN Raised
        ELSE LET q == Posterior(p.rnn_hidden, embedded_next_obs)
             IN  IF q.raised THEN Raised
                 ELSE [raised |-> FALSE, prior |-> p.dist,
                       posterior |-> q.dist, rnn_hidden |-> p.rnn_hidden]

---------------------------------------------------------------------------
(* ActionModel *)

\* hidden_dim of ActionModel (scaled down)
ActHiddenDim == 2

\* 5.0, the scale of the action mean
MeanScale == 50

\* self.init_stddev = log(exp(5.0) - 1) = 4.99...
InitStddev == 50

\* self.min_stddev = 1e-4, which is below the model's precision
ActMinStddev == 0

\* self.act of ActionModel (F.elu)
ActElu(x) == [i \in 1..Batch(x) |-> [j \in 1..Width(x) |-> Elu(x[i][j])]]

\* torch.tanh of a tensor
TanhOf(x) == [i \in 1..Batch(x) |-> [j \in 1..Width(x) |-> Tanh(x[i][j])]]

\* The four hidden layers, lines 205 to 208
ActionHidden(state, rnn_hidden) ==
    LET h1 == ActElu(Linear(L_fc1, StateDim + RnnHiddenDim, ActHiddenDim,
                            Cat(state, rnn_hidden)))
        h2 == ActElu(Linear(L_fc2, ActHiddenDim, ActHiddenDim, h1))
        h3 == ActElu(Linear(L_fc3, ActHiddenDim, ActHiddenDim, h2))
    IN  ActElu(Linear(L_fc4, ActHiddenDim, ActHiddenDim, h3))

\* mean = 5.0 * tanh(fc_mean(hidden) / 5.0)
ActionMean(hidden) ==
    LET raw == Linear(L_fc_mean, ActHiddenDim, ActionDim, hidden)
    IN  [i \in 1..Batch(raw) |-> [j \in 1..Width(raw) |->
            Mul(MeanScale, Tanh(RoundDiv(raw[i][j] * One, MeanScale)))]]

\* stddev = softplus(fc_stddev(hidden) + init_stddev) + min_stddev
ActionStddev(hidden) ==
    LET raw == Linear(L_fc_stddev, ActHiddenDim, ActionDim, hidden)
    IN  [i \in 1..Batch(raw) |-> [j \in 1..Width(raw) |->
            Softplus(raw[i][j] + InitStddev) + ActMinStddev]]

\* The flag ignored: a sample whatever the mode
ActionForwardAlwaysSamples(state, rnn_hidden, training, g) ==
    LET hidden == ActionHidden(state, rnn_hidden)
        mean == ActionMean(hidden)
        stddev == ActionStddev(hidden)
    IN  [action |-> TanhOf(RSample(Normal(mean, stddev), g)),
         rng |-> NextRng(g)]

\* ActionModel.forward with the generator in state g: the action, and the
\* generator afterwards
ActionForward(state, rnn_hidden, training, g) ==
    LET hidden == ActionHidden(state, rnn_hidden)
        mean == ActionMean(hidden)
        stddev == ActionStddev(hidden)
    IN  IF training
        THEN [action |-> TanhOf(RSample(Normal(mean, stddev), g)),
              rng |-> NextRng(g)]
        ELSE [action |-> TanhOf(mean), rng |-> g]

---------------------------------------------------------------------------
(* Construction and the callers' steps *)

MinStddevs == {1, 2}
Activations == {"elu", "relu"}

NoCall == [op |-> "none"]
NoRollout == [mode |-> "none"]

\* Tensors of the configured widths: zero or patterned state, action and
\* rnn_hidden, and an embedding of its own pattern
ValidArgs(b, k, ke) ==
    [state |-> Pattern(b, StateDim, k, 0),
     action |-> Pattern(b, ActionDim, k, 1),
     rnn_hidden |-> Pattern(b, RnnHiddenDim, k, 2),
     embedded_obs |-> Pattern(b, EmbedDim, ke, 3)]

\* __init__ stores the configuration; the layers hold one parameter snapshot
Construct ==
    /\ params \in 0..MaxSeed
    /\ cfg \in [min_stddev : MinStddevs, act : Activations]
    /\ ret = NoCall
    /\ prev = NoCall
    /\ rng = 0
    /\ calls = 0
    /\ acted = NoCall

Init ==
    /\ Construct
    /\ \E b \in 1..MaxBatch, k \in 0..MaxPattern, ke \in 0..MaxPattern :
           args = ValidArgs(b, k, ke)
    /\ roll = NoRollout

\* rnn_hidden overwritten in place with the new one
CallerTensorsInPlace(a, out) ==
    IF "rnn_hidden" \in DOMAIN out
    THEN [a EXCEPT !.rnn_hidden = out.rnn_hidden]
    ELSE a

\* The caller's tensors after a call returned `out`: prior, posterior and
\* forward build new tensors and rebind local names only, so every argument
\* is as it was
CallerTensors(a, out) == a

\* A call is recorded with its inputs, its result and the generator's state
Returned(op, out) ==
    /\ calls < MaxCalls
    /\ calls' = calls + 1
    /\ prev' = ret
    /\ ret' = [op |-> op, in |-> args, out |-> out, rng |-> rng]
    /\ args' = CallerTensors(args, out)
    /\ UNCHANGED <<params, cfg, rng, acted, roll>>

CallPrior ==
    Returned("prior", Prior(args.state, args.action, args.rnn_hidden))

CallPosterior ==
    Returned("posterior", Posterior(args.rnn_hidden, args.embedded_obs))

CallForward ==
    Returned("forward", Forward(args.state, args.action, args.rnn_hidden,
                                args.embedded_obs))

\* The distribution a caller samples its next state from: the posterior in
\* training, the prior in imagination
SampledFrom(r) == IF r.op = "forward" THEN r.out.posterior ELSE r.out.dist

\* The caller carries a sample and the returned rnn_hidden to its next call
FeedBack ==
    /\ ret.op \in {"prior", "forward"}
    /\ ~ret.out.raised
    /\ calls < MaxCalls
    /\ args = ret.in
    /\ args' = [args EXCEPT !.state = RSample(SampledFrom(ret), rng),
                            !.rnn_hidden = ret.out.rnn_hidden]
    /\ rng' = NextRng(rng)
    /\ UNCHANGED <<params, cfg, ret, prev, calls, acted, roll>>

Next == CallPrior \/ CallPosterior \/ CallForward \/ FeedBack

Spec == Init /\ [][Next]_vars

---------------------------------------------------------------------------
(* Properties of single calls *)

\* The values a tensor holds
Elems(x) == {x[i][j] : i \in 1..Batch(x), j \in 1..Width(x)}

HasShape(x, b, w) == Batch(x) = b /\ \A i \in 1..b : Len(x[i]) = w

\* The distributions a call returned
Dists(r) ==
    IF r.op = "none" \/ r.out.raised THEN {}
    ELSE IF r.op = "forward" THEN {r.out.prior, r.out.posterior}
    ELSE {r.out.dist}

\* C1 as claimed: every element of the standard deviation that prior and
\* posterior return is strictly greater than min_stddev.
C1_StddevStrictlyAboveFloor ==
    \A d \in Dists(ret) : \A v \in Elems(d.stddev) : v > cfg.min_stddev

\* C1 as amended: every element of the standard deviation that prior and
\* posterior return is at least min_stddev (softplus of a strongly negative
\* raw output is exactly 0 in finite precision), and so strictly positive.
C1_StddevAtLeastFloor ==
    \A d \in Dists(ret) :
        \A v \in Elems(d.stddev) : v >= cfg.min_stddev /\ v > 0

\* A call returned a standard deviation with one element on the floor and
\* another above it
C1_Witness ==
    \E d \in Dists(ret) :
        /\ cfg.min_stddev \in Elems(d.stddev)
        /\ \E v \in Elems(d.stddev) : v > cfg.min_stddev

\* C2: forward returns the prior and rnn_hidden of prior(state, action,
\* rnn_hidden) and the posterior of posterior(that rnn_hidden, embedding).
C2_ForwardIsPriorThenPosterior ==
    (ret.op = "forward" /\ ~ret.out.raised) =>
        LET p == Prior(ret.in.state, ret.in.action, ret.in.rnn_hidden)
        IN  /\ ret.out.prior = p.dist
            /\ ret.out.rnn_hidden = p.rnn_hidden
            /\ ret.out.posterior
                 = Posterior(p.rnn_hidden, ret.in.embedded_obs).dist

\* forward returned where the advanced rnn_hidden differs from the one
\* passed in, and so does the posterior each of them gives
C2_Witness ==
    /\ ret.op = "forward"
    /\ ~ret.out.raised
    /\ ret.out.rnn_hidden # ret.in.rnn_hidden
    /\ ret.out.posterior
         # Posterior(ret.in.rnn_hidden, ret.in.embedded_obs).dist

\* C5: a call of prior, posterior or forward leaves the caller's tensors,
\* the parameters and the configuration as they were.
C5_CallsChangeNothing ==
    [][calls' # calls =>
          /\ args' = args
          /\ params' = params
          /\ cfg' = cfg
          /\ ret'.in = args]_vars

\* Two calls were made on the same tensors, the first of which advanced
\* rnn_hidden
C5_Witness ==
    /\ prev.op \in {"prior", "forward"}
    /\ ~prev.out.raised
    /\ prev.out.rnn_hidden # prev.in.rnn_hidden
    /\ ret.op # "none"
    /\ ret.in = prev.in
    /\ args = prev.in

\* Row i of every argument, as a batch of one
RowOf(a, i) ==
    [state |-> <<a.state[i]>>, action |-> <<a.action[i]>>,
     rnn_hidden |-> <<a.rnn_hidden[i]>>,
     embedded_obs |-> <<a.embedded_obs[i]>>]

\* Row i of every tensor a call returned, as a batch of one
RowOfDist(d, i) == Normal(<<d.mean[i]>>, <<d.stddev[i]>>)

RowOfOut(op, out, i) ==
    CASE op = "prior" ->
           [raised |-> FALSE, dist |-> RowOfDist(out.dist, i),
            rnn_hidden |-> <<out.rnn_hidden[i]>>]
      [] op = "posterior" ->
           [raised |-> FALSE, dist |-> RowOfDist(out.dist, i)]
      [] op = "forward" ->
           [raised |-> FALSE, prior |-> RowOfDist(out.prior, i),
            posterior |-> RowOfDist(out.posterior, i),
            rnn_hidden |-> <<out.rnn_hidden[i]>>]

Apply(op, a) ==
    CASE op = "prior" -> Prior(a.state, a.action, a.rnn_hidden)
      [] op = "posterior" -> Posterior(a.rnn_hidden, a.embedded_obs)
      [] op = "forward" ->
           Forward(a.state, a.action, a.rnn_hidden, a.embedded_obs)

\* C7: row i of what prior, posterior and forward return for a batch is
\* what they return for row i alone.
C7_BatchIndependence ==
    (ret.op # "none" /\ ~ret.out.raised) =>
        \A i \in 1..Batch(ret.in.rnn_hidden) :
            RowOfOut(ret.op, ret.out, i) = Apply(ret.op, RowOf(ret.in, i))

\* forward returned for a batch whose rows differ in every argument and
\* whose result rows differ
C7_Witness ==
    /\ ret.op = "forward"
    /\ ~ret.out.raised
    /\ Batch(ret.in.state) >= 2
    /\ ret.in.state[1] # ret.in.state[2]
    /\ ret.in.rnn_hidden[1] # ret.in.rnn_hidden[2]
    /\ ret.out.rnn_hidden[1] # ret.out.rnn_hidden[2]
    /\ ret.out.posterior.mean[1] # ret.out.posterior.mean[2]

IsZero(x) == Elems(x) = {0}

\* The first step of the scenario: zero state, action and rnn_hidden
ZeroStart(r) ==
    IsZero(r.in.state) /\ IsZero(r.in.action) /\ IsZero(r.in.rnn_hidden)

\* r is the step after q: its state a sample of q's posterior, its
\* rnn_hidden the one q returned
Chained(q, r) ==
    /\ q.op = "forward"
    /\ ~q.out.raised
    /\ r.in.rnn_hidden = q.out.rnn_hidden
    /\ \E g \in 0..(RngPeriod - 1) :
           r.in.state = RSample(q.out.posterior, g)

StepIsSound(r) ==
    /\ ~r.out.raised
    /\ HasShape(r.out.rnn_hidden, Batch(r.in.state), RnnHiddenDim)
    /\ \A d \in {r.out.prior, r.out.posterior} :
           /\ HasShape(d.mean, Batch(r.in.state), StateDim)
           /\ HasShape(d.stddev, Batch(r.in.state), StateDim)
           /\ \A v \in Elems(d.stddev) : v >= cfg.min_stddev

\* C8: forward on zero state, action and rnn_hidden, and forward on a
\* sample of the previous step's posterior with the rnn_hidden it returned,
\* does not raise, returns an rnn_hidden of shape (batch, RnnHiddenDim) and
\* standard deviations no less than min_stddev.
C8_ClosedLoopChain ==
    (ret.op = "forward" /\ (ZeroStart(ret) \/ Chained(prev, ret))) =>
        StepIsSound(ret)

\* The second step of the scenario has returned
C8_Witness ==
    /\ prev.op = "forward"
    /\ ZeroStart(prev)
    /\ ~IsZero(prev.in.embedded_obs)
    /\ ret.op = "forward"
    /\ Chained(prev, ret)
    /\ ~IsZero(ret.in.state)
    /\ StepIsSound(ret)

---------------------------------------------------------------------------
(* The policy and the transition model called in turn *)

\* ActionModel.forward(state, rnn_hidden, training) on the caller's tensors
CallAction ==
    \E training \in BOOLEAN :
        LET a == ActionForward(args.state, args.rnn_hidden, training, rng)
        IN  /\ calls < MaxCalls
            /\ acted' = [op |-> "action", training |-> training,
                         state |-> args.state, rnn_hidden |-> args.rnn_hidden,
                         rng |-> rng, out |-> a]
            /\ rng' = a.rng
            /\ UNCHANGED <<params, cfg, args, ret, prev, calls, roll>>

NextAct == CallPrior \/ CallAction

SpecAct == Init /\ [][NextAct]_vars

\* C4: two calls of prior with identical inputs return the identical
\* rnn_hidden, mean and standard deviation, whatever the generator's state.
C4_PriorDeterministic ==
    (ret.op = "prior" /\ prev.op = "prior" /\ ret.in = prev.in) =>
        ret.out = prev.out

\* prior was called twice on the same inputs, with a draw from the
\* generator in between
C4_Witness ==
    /\ ret.op = "prior"
    /\ prev.op = "prior"
    /\ ret.in = prev.in
    /\ ret.rng # prev.rng
    /\ ~ret.out.raised

\* C10: with training=False forward returns tanh of the mean and draws
\* nothing; with training=True it returns tanh of a reparameterized sample;
\* either way every component of the action is in [-1, 1].
C10_ActionModes ==
    acted.op = "action" =>
        LET hidden == ActionHidden(acted.state, acted.rnn_hidden)
            mean == ActionMean(hidden)
            dist == Normal(mean, ActionStddev(hidden))
        IN  /\ \A v \in Elems(acted.out.action) : -One <= v /\ v <= One
            /\ HasShape(acted.out.action, Batch(acted.state), ActionDim)
            /\ ~acted.training =>
                   /\ acted.out.action = TanhOf(mean)
                   /\ acted.out.rng = acted.rng
            /\ acted.training =>
                   /\ acted.out.action = TanhOf(RSample(dist, acted.rng))
                   /\ acted.out.rng = NextRng(acted.rng)

\* An evaluation call returned the squashed mean after a training call had
\* moved the generator, and a sample there would have been another action
C10_Witness ==
    /\ acted.op = "action"
    /\ ~acted.training
    /\ acted.rng # 0
    /\ LET hidden == ActionHidden(acted.state, acted.rnn_hidden)
           dist == Normal(ActionMean(hidden), ActionStddev(hidden))
       IN  /\ acted.out.action # TanhOf(RSample(dist, acted.rng))
           /\ ~IsZero(acted.out.action)

---------------------------------------------------------------------------
(* Calls with tensors of any shape *)

\* Tensors whose batch sizes and widths the caller chose freely
ShapedArgs(bs, ws, ba, wa, bh, wh, k) ==
    [state |-> Pattern(bs, ws, k, 0),
     action |-> Pattern(ba, wa, k, 1),
     rnn_hidden |-> Pattern(bh, wh, k, 2),
     embedded_obs |-> Pattern(bh, EmbedDim, k, 3)]

InitShape ==
    /\ Construct
    /\ \E bs, ba, bh \in 1..MaxBatch, ws, wa, wh \in 1..MaxWidth,
          k \in 0..MaxPattern :
           args = ShapedArgs(bs, ws, ba, wa, bh, wh, k)
    /\ roll = NoRollout

NextShape == CallPrior \/ CallForward

SpecShape == InitShape /\ [][NextShape]_vars

\* The arguments of prior have the configured widths and one batch size
ShapesMatch(a) ==
    /\ Width(a.state) = StateDim
    /\ Width(a.action) = ActionDim
    /\ Width(a.rnn_hidden) = RnnHiddenDim
    /\ Batch(a.action) = Batch(a.state)
    /\ Batch(a.rnn_hidden) = Batch(a.state)

\* C6 as claimed: prior on arguments of the configured widths and one batch
\* size returns mean and stddev of width StateDim and an rnn_hidden of width
\* RnnHiddenDim; on any other arguments it raises.
C6_ShapeContract ==
    ret.op = "prior" =>
        IF ShapesMatch(ret.in)
        THEN /\ ~ret.out.raised
             /\ HasShape(ret.out.dist.mean, Batch(ret.in.state), StateDim)
             /\ HasShape(ret.out.dist.stddev, Batch(ret.in.state), StateDim)
             /\ HasShape(ret.out.rnn_hidden, Batch(ret.in.state),
                         RnnHiddenDim)
        ELSE ret.out.raised

---------------------------------------------------------------------------
(* Rollouts *)

\* Two rollouts from one rnn_hidden, or an imagination rollout fed by the
\* mean or by a sample of its own prior
InitRollout ==
    /\ Construct
    /\ \E b \in 1..MaxBatch, k \in 0..MaxPattern :
        /\ args = ValidArgs(b, k, k)
        /\ \/ roll = [mode |-> "twin", t |-> 0,
                      closed |-> [rnn_hidden |-> args.rnn_hidden],
                      open |-> [rnn_hidden |-> args.rnn_hidden]]
           \/ \E feed \in {"mean", "sample"} :
                  roll = [mode |-> "imagine", t |-> 0, feed |-> feed,
                          state |-> args.state,
                          rnn_hidden |-> args.rnn_hidden,
                          hist |-> <<>>]

\* One step of both rollouts on the same state and action: the closed loop
\* calls forward with an embedding, the open loop calls prior
TwinStep ==
    /\ roll.mode = "twin"
    /\ roll.t < TwinLen
    /\ \E ke \in 0..MaxPattern :
        LET b == Batch(args.state)
            k == (roll.t + 1) % (MaxPattern + 1)
            state == Pattern(b, StateDim, k, roll.t)
            action == Pattern(b, ActionDim, k, roll.t + 1)
            c == Forward(state, action, roll.closed.rnn_hidden,
                         Pattern(b, EmbedDim, ke, roll.t + 3))
            o == Prior(state, action, roll.open.rnn_hidden)
        IN  roll' = [mode |-> "twin", t |-> roll.t + 1,
                     state |-> state,
                     closed |-> [rnn_hidden |-> c.rnn_hidden,
                                 prior |-> c.prior,
                                 posterior |-> c.posterior],
                     open |-> [rnn_hidden |-> o.rnn_hidden,
                               prior |-> o.dist]]
    /\ UNCHANGED <<params, cfg, args, ret, prev, rng, calls, acted>>

\* One step of imagination: prior on a zero action, its rnn_hidden kept, its
\* mean or a sample of it the next state
ImagineStep ==
    /\ roll.mode = "imagine"
    /\ roll.t < Horizon
    /\ LET p == Prior(roll.state, Zeros(Batch(roll.state), ActionDim),
                      roll.rnn_hidden)
       IN  /\ roll' = [roll EXCEPT
                  !.t = @ + 1,
                  !.state = IF roll.feed = "mean" THEN p.dist.mean
                            ELSE RSample(p.dist, rng),
                  !.rnn_hidden = p.rnn_hidden,
                  !.hist = Append(@, p.rnn_hidden)]
           /\ rng' = IF roll.feed = "mean" THEN rng ELSE NextRng(rng)
    /\ UNCHANGED <<params, cfg, args, ret, prev, calls, acted>>

NextRollout == TwinStep \/ ImagineStep

SpecRollout == InitRollout /\ [][NextRollout]_vars

\* C3: after every step of two rollouts fed the same state and action, one
\* through forward and one through prior, the two rnn_hidden are equal and
\* so are the two priors.
C3_SameTransition ==
    (roll.mode = "twin" /\ roll.t > 0) =>
        /\ roll.closed.rnn_hidden = roll.open.rnn_hidden
        /\ roll.closed.prior = roll.open.prior

\* Both rollouts ran to their end, and the memory moved on the way
C3_Witness ==
    /\ roll.mode = "twin"
    /\ roll.t = TwinLen
    /\ roll.closed.rnn_hidden = roll.open.rnn_hidden
    /\ roll.closed.prior = roll.open.prior
    /\ roll.closed.posterior # roll.closed.prior
    /\ roll.closed.rnn_hidden # args.rnn_hidden
    /\ ~IsZero(roll.state)

\* The inputs and hidden states a cell is tried on
ProbeInputs ==
    {[j \in 1..HiddenDim |-> (((j + c) % 3) - 1) * One * s] :
        c \in 0..2, s \in 0..1}

ProbeHiddens ==
    {[j \in 1..RnnHiddenDim |-> (((j + c) % 3) - 1) * One * s] :
        c \in 0..2, s \in 0..1}

\* A cell that does not answer to its input, or not to its memory, or that
\* returns the hidden state it was given
DegenerateCell ==
    LET out(x, h) == GRUCell(<<x>>, <<h>>)
    IN  \/ \A h \in ProbeHiddens : \A x1 \in ProbeInputs, x2 \in ProbeInputs :
               out(x1, h) = out(x2, h)
        \/ \A x \in ProbeInputs : \A h1 \in ProbeHiddens, h2 \in ProbeHiddens :
               out(x, h1) = out(x, h2)
        \/ \A x \in ProbeInputs, h \in ProbeHiddens : out(x, h) = <<h>>

Distinct(seq) ==
    \A i \in 1..Len(seq) : \A j \in 1..Len(seq) : i # j => seq[i] # seq[j]

====
